---- MODULE Spec2Model ----
(***************************************************************************)
(* SimpleVector<Type> (src/simple_vector.h): a resizable array owning one  *)
(* heap buffer.  The model keeps, per instance, the three private fields   *)
(* items_, size_ and capacity_, and a heap of arrays obtained with         *)
(* new Type[n] and released with delete[].  Every public member function   *)
(* is one action.  Array indices are 0-based as in the source.             *)
(***************************************************************************)
EXTENDS Integers, Sequences, FiniteSets, TLC

\* ---- bounds of the model ----
MaxCap == 3          \* largest array of the one-object specification
MaxCapTwo == 2       \* largest array of the two-object specifications
MaxPushes == 5       \* longest chain of PushBack calls of the push-only specification
NumValues == 2       \* number of distinct element values

\* ---- the program's constants ----
Null == 0            \* nullptr
DefaultValue == 0    \* Type{}

Inst == {"a", "b"}                 \* the SimpleVector objects of the program
Value == 0..(NumValues - 1)        \* the values of Type
BufId == 1..(Cardinality(Inst) + 1) \* addresses: one array per object and one temporary
NoChain == 0 - 1

VARIABLES
    live,        \* live[x]: object x is constructed and not yet destroyed
    items_,      \* items_[x]: address of the owned array, or Null
    size_,       \* size_[x]
    capacity_,   \* capacity_[x]
    heap,        \* heap[b]: [alloc, slots] of the array at address b
    badDelete,   \* delete[] was applied to an address that is not allocated
    oob,         \* an element outside its array was accessed (undefined behaviour)
    pushes,      \* pushes[x]: PushBack calls since default construction, or NoChain
    last         \* the last call: its name, object, size argument, path taken and outcome

vars == <<live, items_, size_, capacity_, heap, badDelete, oob, pushes, last>>

\* ---- views of the state ----
Max(m, n) == IF m >= n THEN m ELSE n

\* the array an instance owns, as a function 0..n-1 -> Value
Array(x) == IF items_[x] = Null THEN << >> ELSE heap[items_[x]].slots

\* number of slots of the array the instance owns
Slots(x) == IF items_[x] = Null THEN 0 ELSE Cardinality(DOMAIN heap[items_[x]].slots)

\* the element sequence [begin(), end()) as a 1-based sequence
SeqOf(arr, n) == [i \in 1..n |-> arr[i - 1]]

Elems(x) == SeqOf(Array(x), size_[x])

\* ---- the heap: new Type[n] and delete[] ----
\* new Type[n] default-initialises: for a scalar Type the slots hold any values.
\* The caller assigns slots [0, k) before anything reads them, so only the values
\* of slots [k, n) are enumerated; slots [0, k) start as DefaultValue.
NewArray(n, k) ==
    {[i \in 0..(n - 1) |-> IF i < k THEN DefaultValue ELSE t[i]] : t \in [k..(n - 1) -> Value]}

HasFree(h) == \E b \in BufId : ~h[b].alloc

FreeBuf(h) == CHOOSE b \in BufId : ~h[b].alloc /\ \A c \in BufId : ~h[c].alloc => b <= c

New(h, b, arr) == [h EXCEPT ![b] = [alloc |-> TRUE, slots |-> arr]]

Delete(h, p) == IF p = Null THEN h ELSE [h EXCEPT ![p] = [alloc |-> FALSE, slots |-> << >>]]

BadDelete(h, p) == p # Null /\ ~h[p].alloc

\* ---- <algorithm> ----
\* std::move / std::copy (first, last, d_first) between two arrays
RECURSIVE std_move(_, _, _, _, _)
std_move(src, first, lst, dst, d_first) ==
    IF first >= lst THEN dst
    ELSE std_move(src, first + 1, lst, [dst EXCEPT ![d_first] = src[first]], d_first + 1)

\* std::move (first, last, d_first) inside one array
RECURSIVE std_move_in(_, _, _, _)
std_move_in(arr, first, lst, d_first) ==
    IF first >= lst THEN arr
    ELSE std_move_in([arr EXCEPT ![d_first] = arr[first]], first + 1, lst, d_first + 1)

\* std::move_backward (first, last, d_last) inside one array
RECURSIVE std_move_backward(_, _, _, _)
std_move_backward(arr, first, lst, d_last) ==
    IF first >= lst THEN arr
    ELSE std_move_backward([arr EXCEPT ![d_last - 1] = arr[lst - 1]], first, lst - 1, d_last - 1)

\* std::fill (first, last, value)
std_fill(arr, first, lst, value) ==
    [i \in DOMAIN arr |-> IF first <= i /\ i < lst THEN value ELSE arr[i]]

\* ---- bookkeeping of the call ----
NoRet == 0 - 1

\* a call that returns position ret (an offset from begin()), or NoRet
CallRet(op, x, n, ret, re, ok) ==
    [op |-> op, x |-> x, n |-> n, ret |-> ret, realloc |-> re, ok |-> ok]

Call(op, x, n, re, ok) == CallRet(op, x, n, NoRet, re, ok)

\* the call touches slots [0, n) of the array x owns
InBounds(x, n) == n <= Slots(x)

SetFields(x, it, sz, cp) ==
    /\ items_' = [items_ EXCEPT ![x] = it]
    /\ size_' = [size_ EXCEPT ![x] = sz]
    /\ capacity_' = [capacity_ EXCEPT ![x] = cp]

Init ==
    /\ live = [x \in Inst |-> FALSE]
    /\ items_ = [x \in Inst |-> Null]
    /\ size_ = [x \in Inst |-> 0]
    /\ capacity_ = [x \in Inst |-> 0]
    /\ heap = [b \in BufId |-> [alloc |-> FALSE, slots |-> << >>]]
    /\ badDelete = FALSE
    /\ oob = FALSE
    /\ pushes = [x \in Inst |-> NoChain]
    /\ last = Call("none", "-", 0, FALSE, TRUE)

\* ---- constructors and destructor ----
\* SimpleVector() noexcept = default
DefaultCtor(x) ==
    /\ ~live[x]
    /\ live' = [live EXCEPT ![x] = TRUE]
    /\ SetFields(x, Null, 0, 0)
    /\ pushes' = [pushes EXCEPT ![x] = 0]
    /\ last' = Call("DefaultCtor", x, 0, FALSE, TRUE)
    /\ UNCHANGED <<heap, badDelete, oob>>

\* a constructor whose allocation throws constructs nothing
CtorThrows(op, x, n) ==
    /\ last' = Call(op, x, n, FALSE, FALSE)
    /\ UNCHANGED <<live, items_, size_, capacity_, heap, badDelete, oob, pushes>>

\* variant with a fault: capacity_ is left at its default member initialiser
ReserveCtorNoCapacity(x, n, ok) ==
    /\ ~live[x]
    /\ IF ~ok THEN CtorThrows("ReserveCtor", x, n)
       ELSE /\ HasFree(heap)
            /\ \E arr \in NewArray(n, 0) :
                  /\ heap' = New(heap, FreeBuf(heap), arr)
                  /\ SetFields(x, FreeBuf(heap), 0, 0)
            /\ live' = [live EXCEPT ![x] = TRUE]
            /\ pushes' = [pushes EXCEPT ![x] = NoChain]
            /\ last' = Call("ReserveCtor", x, n, FALSE, TRUE)
            /\ UNCHANGED <<badDelete, oob>>

\* explicit SimpleVector(ReserveProxyObj obj)
ReserveCtor(x, n, ok) ==
    /\ ~live[x]
    /\ IF ~ok THEN CtorThrows("ReserveCtor", x, n)
       ELSE /\ HasFree(heap)
            /\ \E arr \in NewArray(n, 0) :
                  /\ heap' = New(heap, FreeBuf(heap), arr)
                  /\ SetFields(x, FreeBuf(heap), 0, n)
            /\ live' = [live EXCEPT ![x] = TRUE]
            /\ pushes' = [pushes EXCEPT ![x] = NoChain]
            /\ last' = Call("ReserveCtor", x, n, FALSE, TRUE)
            /\ UNCHANGED <<badDelete, oob>>

\* SimpleVector(size_t size, const Type& value = Type{})
FillCtor(x, n, value, ok) ==
    /\ ~live[x]
    /\ IF n = 0
       THEN /\ ok
            /\ SetFields(x, Null, 0, 0)
            /\ live' = [live EXCEPT ![x] = TRUE]
            /\ pushes' = [pushes EXCEPT ![x] = NoChain]
            /\ last' = Call("FillCtor", x, n, FALSE, TRUE)
            /\ UNCHANGED <<heap, badDelete, oob>>
       ELSE IF ~ok THEN CtorThrows("FillCtor", x, n)
       ELSE /\ HasFree(heap)
            /\ \E arr \in NewArray(n, n) :
                  /\ heap' = New(heap, FreeBuf(heap), std_fill(arr, 0, n, value))
                  /\ SetFields(x, FreeBuf(heap), n, n)
            /\ live' = [live EXCEPT ![x] = TRUE]
            /\ pushes' = [pushes EXCEPT ![x] = NoChain]
            /\ last' = Call("FillCtor", x, n, FALSE, TRUE)
            /\ UNCHANGED <<badDelete, oob>>

\* SimpleVector(std::initializer_list<Type> init); init is a 0-based array
InitListCtor(x, init, ok) ==
    LET n == Cardinality(DOMAIN init) IN
    /\ ~live[x]
    /\ IF n = 0
       THEN /\ ok
            /\ SetFields(x, Null, 0, 0)
            /\ live' = [live EXCEPT ![x] = TRUE]
            /\ pushes' = [pushes EXCEPT ![x] = NoChain]
            /\ last' = Call("InitListCtor", x, n, FALSE, TRUE)
            /\ UNCHANGED <<heap, badDelete, oob>>
       ELSE IF ~ok THEN CtorThrows("InitListCtor", x, n)
       ELSE /\ HasFree(heap)
            /\ \E arr \in NewArray(n, n) :
                  /\ heap' = New(heap, FreeBuf(heap), std_move(init, 0, n, arr, 0))
                  /\ SetFields(x, FreeBuf(heap), n, n)
            /\ live' = [live EXCEPT ![x] = TRUE]
            /\ pushes' = [pushes EXCEPT ![x] = NoChain]
            /\ last' = Call("InitListCtor", x, n, FALSE, TRUE)
            /\ UNCHANGED <<badDelete, oob>>

\* variant with a fault: the copy takes the source's pointer instead of a new array
CopyCtorShallow(x, other, ok) ==
    /\ ~live[x]
    /\ live[other]
    /\ IF ~ok THEN CtorThrows("CopyCtor", x, 0)
       ELSE /\ SetFields(x, items_[other], size_[other], capacity_[other])
            /\ live' = [live EXCEPT ![x] = TRUE]
            /\ pushes' = [pushes EXCEPT ![x] = NoChain]
            /\ last' = Call("CopyCtor", x, 0, FALSE, TRUE)
            /\ UNCHANGED <<heap, badDelete, oob>>

\* SimpleVector(const SimpleVector& other)
CopyCtor(x, other, ok) ==
    /\ ~live[x]
    /\ live[other]
    /\ IF ~ok THEN CtorThrows("CopyCtor", x, 0)
       ELSE /\ HasFree(heap)
            /\ InBounds(other, size_[other])
            /\ \E arr \in NewArray(capacity_[other], size_[other]) :
                  /\ heap' = New(heap, FreeBuf(heap),
                                 std_move(Array(other), 0, size_[other], arr, 0))
                  /\ SetFields(x, FreeBuf(heap), size_[other], capacity_[other])
            /\ live' = [live EXCEPT ![x] = TRUE]
            /\ pushes' = [pushes EXCEPT ![x] = NoChain]
            /\ last' = Call("CopyCtor", x, 0, FALSE, TRUE)
            /\ UNCHANGED <<badDelete, oob>>

\* SimpleVector(SimpleVector&& other)
MoveCtor(x, other) ==
    /\ ~live[x]
    /\ live[other]
    /\ items_' = [items_ EXCEPT ![x] = items_[other], ![other] = Null]
    /\ size_' = [size_ EXCEPT ![x] = size_[other], ![other] = 0]
    /\ capacity_' = [capacity_ EXCEPT ![x] = capacity_[other], ![other] = 0]
    /\ live' = [live EXCEPT ![x] = TRUE]
    /\ pushes' = [pushes EXCEPT ![x] = NoChain, ![other] = NoChain]
    /\ last' = Call("MoveCtor", x, 0, FALSE, TRUE)
    /\ UNCHANGED <<heap, badDelete, oob>>

\* ~SimpleVector()
Dtor(x) ==
    /\ live[x]
    /\ heap' = Delete(heap, items_[x])
    /\ badDelete' = (badDelete \/ BadDelete(heap, items_[x]))
    /\ SetFields(x, Null, 0, 0)
    /\ live' = [live EXCEPT ![x] = FALSE]
    /\ pushes' = [pushes EXCEPT ![x] = NoChain]
    /\ last' = Call("Dtor", x, 0, FALSE, TRUE)
    /\ UNCHANGED oob

\* ---- access ----
\* variant with a fault: the index is checked against capacity_
AtChecksCapacity(x, index) ==
    /\ live[x]
    /\ index >= capacity_[x] \/ InBounds(x, index + 1)
    /\ last' = IF index >= capacity_[x]
               THEN CallRet("At", x, index, NoRet, FALSE, FALSE)
               ELSE CallRet("At", x, index, Array(x)[index], FALSE, TRUE)
    /\ UNCHANGED <<live, items_, size_, capacity_, heap, badDelete, oob, pushes>>

\* Type& At(size_t index): throws std::out_of_range (ok = FALSE) or returns
\* items_[index]; the returned element is recorded as ret
At(x, index) ==
    /\ live[x]
    /\ index >= size_[x] \/ InBounds(x, index + 1)
    /\ last' = IF index >= size_[x]
               THEN CallRet("At", x, index, NoRet, FALSE, FALSE)
               ELSE CallRet("At", x, index, Array(x)[index], FALSE, TRUE)
    /\ UNCHANGED <<live, items_, size_, capacity_, heap, badDelete, oob, pushes>>

\* ---- insertion ----
\* slots [0, n) of the owned array that InsertInVector reads or writes
InsertExtent(x, position) ==
    IF size_[x] < capacity_[x] THEN Max(size_[x], position + 1) ELSE size_[x]

\* variant with a fault: the capacity grows by one slot instead of doubling
GrownCapacityPlusOne(cap) == cap + 1

\* variant with a fault: an empty container grows to two slots
GrownCapacityFromTwo(cap) == IF cap = 0 THEN 2 ELSE cap + cap

\* capacity_ == 0 ? capacity_ = 1 : capacity_ += capacity_
GrownCapacity(cap) == IF cap = 0 THEN 1 ELSE cap + cap

\* Iterator InsertInVector(ConstIterator pos, Type&& value); position = pos - cbegin().
\* ok: the outcome of new Type[capacity_] on the growing path.
InsertInVector(x, position, value, ok) ==
    /\ ok => InBounds(x, InsertExtent(x, position))
    /\ IF size_[x] < capacity_[x]
       THEN /\ ok
            /\ LET shifted == std_move_backward(Array(x), position, size_[x], size_[x])
               IN heap' = [heap EXCEPT ![items_[x]].slots = [shifted EXCEPT ![position] = value]]
            /\ size_' = [size_ EXCEPT ![x] = size_[x] + 1]
            /\ UNCHANGED <<items_, capacity_, badDelete>>
       ELSE LET cap == GrownCapacity(capacity_[x]) IN
            IF ~ok
            THEN /\ capacity_' = [capacity_ EXCEPT ![x] = cap]
                 /\ UNCHANGED <<items_, size_, heap, badDelete>>
            ELSE /\ HasFree(heap)
                 /\ \E arr \in NewArray(cap, size_[x] + 1) :
                      LET tmp == FreeBuf(heap)
                          t1 == std_move(Array(x), 0, position, arr, 0)
                          t2 == std_move(Array(x), position, size_[x], t1, position + 1)
                          h1 == New(heap, tmp, [t2 EXCEPT ![position] = value])
                      IN /\ heap' = Delete(h1, items_[x])
                         /\ badDelete' = (badDelete \/ BadDelete(h1, items_[x]))
                         /\ SetFields(x, tmp, size_[x] + 1, cap)

\* void PushBack(Type&& item)
PushBack(x, item, ok) ==
    /\ live[x]
    /\ InsertInVector(x, size_[x], item, ok)
    /\ pushes' = [pushes EXCEPT ![x] = IF ok /\ pushes[x] # NoChain THEN pushes[x] + 1 ELSE NoChain]
    /\ last' = Call("PushBack", x, size_[x], size_[x] >= capacity_[x], ok)
    /\ UNCHANGED <<live, oob>>

\* Iterator Insert(ConstIterator pos, Type&& value); returns begin() + position
Insert(x, position, value, ok) ==
    /\ live[x]
    /\ position <= size_[x]
    /\ InsertInVector(x, position, value, ok)
    /\ pushes' = [pushes EXCEPT ![x] = NoChain]
    /\ last' = CallRet("Insert", x, position, IF ok THEN position ELSE NoRet,
                       size_[x] >= capacity_[x], ok)
    /\ UNCHANGED <<live, oob>>

\* ---- removal ----
\* void PopBack() noexcept; the caller guarantees size_ != 0
PopBack(x) ==
    /\ live[x]
    /\ size_[x] # 0
    /\ size_' = [size_ EXCEPT ![x] = size_[x] - 1]
    /\ pushes' = [pushes EXCEPT ![x] = NoChain]
    /\ last' = Call("PopBack", x, 0, FALSE, TRUE)
    /\ UNCHANGED <<live, items_, capacity_, heap, badDelete, oob>>

EraseExtent(x, position) == IF position + 1 < size_[x] THEN size_[x] ELSE 0

\* variant with a fault: the tail moves from position + 2
EraseSlotsSkipsOne(arr, position, size) ==
    IF position + 2 < size THEN std_move_in(arr, position + 2, size, position) ELSE arr

\* std::move(pos_return + 1, end(), pos_return) on an array holding size elements
EraseSlots(arr, position, size) ==
    IF position + 1 < size THEN std_move_in(arr, position + 1, size, position) ELSE arr

\* Iterator Erase(ConstIterator pos); pos in [begin(), end()); returns begin() + position
Erase(x, position) ==
    /\ live[x]
    /\ position < size_[x]
    /\ InBounds(x, EraseExtent(x, position))
    /\ heap' = IF items_[x] = Null THEN heap
               ELSE [heap EXCEPT ![items_[x]].slots = EraseSlots(Array(x), position, size_[x])]
    /\ size_' = [size_ EXCEPT ![x] = size_[x] - 1]
    /\ pushes' = [pushes EXCEPT ![x] = NoChain]
    /\ last' = CallRet("Erase", x, position, position, FALSE, TRUE)
    /\ UNCHANGED <<live, items_, capacity_, badDelete, oob>>

\* variant with a fault: Clear releases the array
ClearReleases(x) ==
    /\ live[x]
    /\ heap' = Delete(heap, items_[x])
    /\ badDelete' = (badDelete \/ BadDelete(heap, items_[x]))
    /\ SetFields(x, Null, 0, 0)
    /\ pushes' = [pushes EXCEPT ![x] = NoChain]
    /\ last' = Call("Clear", x, 0, FALSE, TRUE)
    /\ UNCHANGED <<live, oob>>

\* void Clear() noexcept
Clear(x) ==
    /\ live[x]
    /\ size_' = [size_ EXCEPT ![x] = 0]
    /\ pushes' = [pushes EXCEPT ![x] = NoChain]
    /\ last' = Call("Clear", x, 0, FALSE, TRUE)
    /\ UNCHANGED <<live, items_, capacity_, heap, badDelete, oob>>

\* ---- capacity ----
\* variant with a fault: the new capacity ignores the old size
ResizeCapacityExact(new_size, size) == new_size

\* variant with a fault: the new capacity ignores new_size
ResizeCapacityDoubled(new_size, size) == size * 2

\* capacity_ = std::max(new_size, size_ * 2)
ResizeCapacity(new_size, size) == Max(new_size, size * 2)

\* variant with a fault: slots exposed within the capacity are default-filled
ResizeFillsExposed(x, new_size, ok) ==
    /\ live[x]
    /\ IF new_size > capacity_[x]
       THEN LET cap == ResizeCapacity(new_size, size_[x]) IN
            IF ~ok
            THEN /\ capacity_' = [capacity_ EXCEPT ![x] = cap]
                 /\ UNCHANGED <<items_, size_, heap, badDelete>>
            ELSE /\ HasFree(heap)
                 /\ InBounds(x, size_[x])
                 /\ \E arr \in NewArray(cap, new_size) :
                      LET tmp == FreeBuf(heap)
                          t1 == std_move(Array(x), 0, size_[x], arr, 0)
                          h1 == New(heap, tmp, t1)
                          h2 == Delete(h1, items_[x])
                      IN /\ heap' = [h2 EXCEPT ![tmp].slots =
                                        std_fill(t1, size_[x], new_size, DefaultValue)]
                         /\ badDelete' = (badDelete \/ BadDelete(h1, items_[x]))
                         /\ SetFields(x, tmp, new_size, cap)
       ELSE /\ ok
            /\ size_' = [size_ EXCEPT ![x] = new_size]
            /\ heap' = IF new_size > size_[x]
                       THEN [heap EXCEPT ![items_[x]].slots =
                                std_fill(Array(x), size_[x], new_size, DefaultValue)]
                       ELSE heap
            /\ UNCHANGED <<items_, capacity_, badDelete>>
    /\ pushes' = [pushes EXCEPT ![x] = NoChain]
    /\ last' = Call("Resize", x, new_size, new_size > capacity_[x], ok)
    /\ UNCHANGED <<live, oob>>

\* void Resize(size_t new_size); ok: the outcome of new Type[capacity_]
Resize(x, new_size, ok) ==
    /\ live[x]
    /\ IF new_size > capacity_[x]
       THEN LET cap == ResizeCapacity(new_size, size_[x]) IN
            IF ~ok
            THEN /\ capacity_' = [capacity_ EXCEPT ![x] = cap]
                 /\ UNCHANGED <<items_, size_, heap, badDelete>>
            ELSE /\ HasFree(heap)
                 /\ InBounds(x, size_[x])
                 /\ \E arr \in NewArray(cap, new_size) :
                      LET tmp == FreeBuf(heap)
                          t1 == std_move(Array(x), 0, size_[x], arr, 0)
                          h1 == New(heap, tmp, t1)
                          h2 == Delete(h1, items_[x])
                      IN /\ heap' = [h2 EXCEPT ![tmp].slots =
                                        std_fill(t1, size_[x], new_size, DefaultValue)]
                         /\ badDelete' = (badDelete \/ BadDelete(h1, items_[x]))
                         /\ SetFields(x, tmp, new_size, cap)
       ELSE /\ ok
            /\ size_' = [size_ EXCEPT ![x] = new_size]
            /\ UNCHANGED <<items_, capacity_, heap, badDelete>>
    /\ pushes' = [pushes EXCEPT ![x] = NoChain]
    /\ last' = Call("Resize", x, new_size, new_size > capacity_[x], ok)
    /\ UNCHANGED <<live, oob>>

\* variant with a fault: the elements are not moved into the new array
ReserveLosesElements(x, new_capacity, ok) ==
    /\ live[x]
    /\ IF new_capacity > capacity_[x]
       THEN IF ~ok
            THEN UNCHANGED <<items_, size_, capacity_, heap, badDelete>>
            ELSE /\ HasFree(heap)
                 /\ \E arr \in NewArray(new_capacity, 0) :
                      LET tmp == FreeBuf(heap)
                          h1 == New(heap, tmp, arr)
                      IN /\ heap' = Delete(h1, items_[x])
                         /\ badDelete' = (badDelete \/ BadDelete(h1, items_[x]))
                         /\ SetFields(x, tmp, size_[x], new_capacity)
       ELSE /\ ok
            /\ UNCHANGED <<items_, size_, capacity_, heap, badDelete>>
    /\ pushes' = [pushes EXCEPT ![x] = NoChain]
    /\ last' = Call("Reserve", x, new_capacity, new_capacity > capacity_[x], ok)
    /\ UNCHANGED <<live, oob>>

\* void Reserve(size_t new_capacity); ok: the outcome of new Type[new_capacity]
Reserve(x, new_capacity, ok) ==
    /\ live[x]
    /\ IF new_capacity > capacity_[x]
       THEN IF ~ok
            THEN UNCHANGED <<items_, size_, capacity_, heap, badDelete>>
            ELSE /\ HasFree(heap)
                 /\ InBounds(x, size_[x])
                 /\ \E arr \in NewArray(new_capacity, size_[x]) :
                      LET tmp == FreeBuf(heap)
                          h1 == New(heap, tmp, std_move(Array(x), 0, size_[x], arr, 0))
                      IN /\ heap' = Delete(h1, items_[x])
                         /\ badDelete' = (badDelete \/ BadDelete(h1, items_[x]))
                         /\ SetFields(x, tmp, size_[x], new_capacity)
       ELSE /\ ok
            /\ UNCHANGED <<items_, size_, capacity_, heap, badDelete>>
    /\ pushes' = [pushes EXCEPT ![x] = NoChain]
    /\ last' = Call("Reserve", x, new_capacity, new_capacity > capacity_[x], ok)
    /\ UNCHANGED <<live, oob>>

\* void swap(SimpleVector& other) noexcept
swap(x, other) ==
    /\ live[x]
    /\ live[other]
    /\ items_' = [items_ EXCEPT ![x] = items_[other], ![other] = items_[x]]
    /\ size_' = [size_ EXCEPT ![x] = size_[other], ![other] = size_[x]]
    /\ capacity_' = [capacity_ EXCEPT ![x] = capacity_[other], ![other] = capacity_[x]]
    /\ pushes' = [pushes EXCEPT ![x] = NoChain, ![other] = NoChain]
    /\ last' = Call("swap", x, 0, FALSE, TRUE)
    /\ UNCHANGED <<live, heap, badDelete, oob>>

\* ---- assignment ----
\* variant with a fault: the temporary copy has only size_ slots
CopyAssignShrinks(x, rhs, ok) ==
    /\ live[x]
    /\ live[rhs]
    /\ IF x = rhs
       THEN /\ ok
            /\ UNCHANGED <<items_, size_, capacity_, heap, badDelete>>
       ELSE IF size_[rhs] <= capacity_[x]
       THEN /\ ok
            /\ InBounds(rhs, size_[rhs])
            /\ InBounds(x, size_[rhs])
            /\ heap' = IF size_[rhs] = 0 THEN heap
                       ELSE [heap EXCEPT ![items_[x]].slots =
                                std_move(Array(rhs), 0, size_[rhs], Array(x), 0)]
            /\ size_' = [size_ EXCEPT ![x] = size_[rhs]]
            /\ UNCHANGED <<items_, capacity_, badDelete>>
       ELSE IF ~ok
       THEN UNCHANGED <<items_, size_, capacity_, heap, badDelete>>
       ELSE /\ HasFree(heap)
            /\ InBounds(rhs, size_[rhs])
            /\ \E arr \in NewArray(size_[rhs], size_[rhs]) :
                 LET tmp == FreeBuf(heap)
                     h1 == New(heap, tmp, std_move(Array(rhs), 0, size_[rhs], arr, 0))
                 IN /\ heap' = Delete(h1, items_[x])
                    /\ badDelete' = (badDelete \/ BadDelete(h1, items_[x]))
                    /\ SetFields(x, tmp, size_[rhs], size_[rhs])
    /\ pushes' = [pushes EXCEPT ![x] = NoChain]
    /\ last' = Call("CopyAssign", x, 0, x # rhs /\ size_[rhs] > capacity_[x], ok)
    /\ UNCHANGED <<live, oob>>

\* SimpleVector& operator=(const SimpleVector& rhs); ok: the outcome of the
\* allocation made by the temporary SimpleVector tmp(rhs)
CopyAssign(x, rhs, ok) ==
    /\ live[x]
    /\ live[rhs]
    /\ IF x = rhs
       THEN /\ ok
            /\ UNCHANGED <<items_, size_, capacity_, heap, badDelete>>
       ELSE IF size_[rhs] <= capacity_[x]
       THEN /\ ok
            /\ InBounds(rhs, size_[rhs])
            /\ InBounds(x, size_[rhs])
            /\ heap' = IF size_[rhs] = 0 THEN heap
                       ELSE [heap EXCEPT ![items_[x]].slots =
                                std_move(Array(rhs), 0, size_[rhs], Array(x), 0)]
            /\ size_' = [size_ EXCEPT ![x] = size_[rhs]]
            /\ UNCHANGED <<items_, capacity_, badDelete>>
       ELSE IF ~ok
       THEN UNCHANGED <<items_, size_, capacity_, heap, badDelete>>
       ELSE /\ HasFree(heap)
            /\ InBounds(rhs, size_[rhs])
            /\ \E arr \in NewArray(capacity_[rhs], size_[rhs]) :
                 LET tmp == FreeBuf(heap)
                     h1 == New(heap, tmp, std_move(Array(rhs), 0, size_[rhs], arr, 0))
                 IN /\ heap' = Delete(h1, items_[x])
                    /\ badDelete' = (badDelete \/ BadDelete(h1, items_[x]))
                    /\ SetFields(x, tmp, size_[rhs], capacity_[rhs])
    /\ pushes' = [pushes EXCEPT ![x] = NoChain]
    /\ last' = Call("CopyAssign", x, 0, x # rhs /\ size_[rhs] > capacity_[x], ok)
    /\ UNCHANGED <<live, oob>>

\* variant with a fault: the target's old array is not released
MoveAssignNoDelete(x, rhs) ==
    /\ live[x]
    /\ live[rhs]
    /\ IF x = rhs
       THEN UNCHANGED <<items_, size_, capacity_>>
       ELSE /\ items_' = [items_ EXCEPT ![x] = items_[rhs], ![rhs] = Null]
            /\ size_' = [size_ EXCEPT ![x] = size_[rhs], ![rhs] = 0]
            /\ capacity_' = [capacity_ EXCEPT ![x] = capacity_[rhs], ![rhs] = 0]
    /\ pushes' = [pushes EXCEPT ![x] = NoChain, ![rhs] = NoChain]
    /\ last' = Call("MoveAssign", x, 0, FALSE, TRUE)
    /\ UNCHANGED <<live, heap, badDelete, oob>>

\* variant with a fault: rhs.size_ is not reset
MoveAssignKeepsSize(x, rhs) ==
    /\ live[x]
    /\ live[rhs]
    /\ IF x = rhs
       THEN UNCHANGED <<items_, size_, capacity_, heap, badDelete>>
       ELSE /\ heap' = Delete(heap, items_[x])
            /\ badDelete' = (badDelete \/ BadDelete(heap, items_[x]))
            /\ items_' = [items_ EXCEPT ![x] = items_[rhs], ![rhs] = Null]
            /\ size_' = [size_ EXCEPT ![x] = size_[rhs]]
            /\ capacity_' = [capacity_ EXCEPT ![x] = capacity_[rhs], ![rhs] = 0]
    /\ pushes' = [pushes EXCEPT ![x] = NoChain, ![rhs] = NoChain]
    /\ last' = Call("MoveAssign", x, 0, FALSE, TRUE)
    /\ UNCHANGED <<live, oob>>

\* SimpleVector& operator=(SimpleVector&& rhs)
MoveAssign(x, rhs) ==
    /\ live[x]
    /\ live[rhs]
    /\ IF x = rhs
       THEN UNCHANGED <<items_, size_, capacity_, heap, badDelete>>
       ELSE /\ heap' = Delete(heap, items_[x])
            /\ badDelete' = (badDelete \/ BadDelete(heap, items_[x]))
            /\ items_' = [items_ EXCEPT ![x] = items_[rhs], ![rhs] = Null]
            /\ size_' = [size_ EXCEPT ![x] = size_[rhs], ![rhs] = 0]
            /\ capacity_' = [capacity_ EXCEPT ![x] = capacity_[rhs], ![rhs] = 0]
    /\ pushes' = [pushes EXCEPT ![x] = NoChain, ![rhs] = NoChain]
    /\ last' = Call("MoveAssign", x, 0, FALSE, TRUE)
    /\ UNCHANGED <<live, oob>>

\* ---- comparison ----
Bit(b) == IF b THEN 1 ELSE 0

\* the indices at which std::equal(lhs.begin(), lhs.end(), rhs.begin()) finds
\* different elements, among the slots that rhs has
Mismatch(lhs, rhs) ==
    {i \in 0..(size_[lhs] - 1) : i < Slots(rhs) /\ Array(lhs)[i] # Array(rhs)[i]}

\* how many slots of rhs std::equal reads: all size_[lhs] of them (the memcmp that
\* the library uses for trivially comparable types), or up to the first
\* mismatch (the element-wise loop)
std_equal_reads(lhs, rhs) ==
    {size_[lhs]} \cup
       (IF Mismatch(lhs, rhs) = {} THEN {}
        ELSE {1 + CHOOSE i \in Mismatch(lhs, rhs) : \A j \in Mismatch(lhs, rhs) : i <= j})

\* the value of lhs == rhs when std::equal stays inside the array of rhs
EqualValue(lhs, rhs) == Mismatch(lhs, rhs) = {} /\ size_[lhs] = size_[rhs]

\* the body of operator==, shared with operator!= (negate); ret is the bool
\* returned.  Reading past the array of rhs is undefined: the call crashes
\* (NoRet) or compares garbage and then finds the sizes different.
Compare(op, lhs, rhs, negate) ==
    /\ live[lhs]
    /\ live[rhs]
    /\ InBounds(lhs, size_[lhs])
    /\ \E reads \in std_equal_reads(lhs, rhs) :
          IF reads <= Slots(rhs)
          THEN /\ last' = CallRet(op, lhs, reads,
                                  Bit(EqualValue(lhs, rhs) # negate), FALSE, TRUE)
               /\ UNCHANGED oob
          ELSE /\ \E ret \in {NoRet, Bit(negate)} :
                     last' = CallRet(op, lhs, reads, ret, FALSE, FALSE)
               /\ oob' = TRUE
    /\ UNCHANGED <<live, items_, size_, capacity_, heap, badDelete, pushes>>

\* bool operator==(const SimpleVector&, const SimpleVector&)
Equal(lhs, rhs) == Compare("Equal", lhs, rhs, FALSE)

\* bool operator!=(const SimpleVector&, const SimpleVector&)
NotEqual(lhs, rhs) == Compare("NotEqual", lhs, rhs, TRUE)

\* ---- undefined behaviour ----
\* Some call indexes items_ outside the array it points to.  This needs a recorded
\* capacity_ larger than the array, which only a throwing allocation leaves behind.
OutOfBounds(x) ==
    /\ live[x]
    /\ \/ \E position \in 0..size_[x] :
             size_[x] < capacity_[x] /\ ~InBounds(x, InsertExtent(x, position))
       \/ \E position \in 0..(size_[x] - 1) : ~InBounds(x, EraseExtent(x, position))
       \/ ~InBounds(x, size_[x])
    /\ oob' = TRUE
    /\ last' = Call("OutOfBounds", x, 0, FALSE, FALSE)
    /\ UNCHANGED <<live, items_, size_, capacity_, heap, badDelete, pushes>>

\* ---- the calls of a client: objects of I, arrays of at most bound slots ----
InitLists(bound) == UNION {[0..(n - 1) -> Value] : n \in 0..bound}

Grows(x, bound) == size_[x] < capacity_[x] \/ GrownCapacity(capacity_[x]) <= bound

\* Resize may pass the bound by one slot, which admits the doubling of a full
\* two-element array: max(3, 2 * 2) = 4
ResizeFits(x, n, bound) == n <= capacity_[x] \/ ResizeCapacity(n, size_[x]) <= bound + 1

Construct(I, bound, ok) ==
    \E x \in I :
       \/ ok /\ DefaultCtor(x)
       \/ \E n \in 0..bound : ReserveCtor(x, n, ok)
       \/ \E n \in 0..bound, v \in Value : FillCtor(x, n, v, ok)
       \/ \E init \in InitLists(bound) : InitListCtor(x, init, ok)

Destroy(I) == \E x \in I : Dtor(x)

Mutate(I, bound, ok) ==
    \E x \in I :
       \/ \E v \in Value : Grows(x, bound) /\ PushBack(x, v, ok)
       \/ \E p \in 0..bound, v \in Value : Grows(x, bound) /\ Insert(x, p, v, ok)
       \/ ok /\ PopBack(x)
       \/ \E p \in 0..bound : ok /\ Erase(x, p)
       \/ ok /\ Clear(x)
       \/ \E n \in 0..bound : ResizeFits(x, n, bound) /\ Resize(x, n, ok)
       \/ \E n \in 0..bound : Reserve(x, n, ok)

Query(I, bound) == \E x \in I, index \in 0..bound : At(x, index)

Pairwise(ok) ==
    \E x \in Inst, y \in Inst :
       \/ x # y /\ CopyCtor(x, y, ok)
       \/ ok /\ x # y /\ MoveCtor(x, y)
       \/ ok /\ x # y /\ swap(x, y)
       \/ CopyAssign(x, y, ok)
       \/ ok /\ MoveAssign(x, y)

\* two objects, every allocation succeeds
Next ==
    \/ Construct(Inst, MaxCapTwo, TRUE)
    \/ Destroy(Inst)
    \/ Mutate(Inst, MaxCapTwo, TRUE)
    \/ Pairwise(TRUE)

Spec == Init /\ [][Next]_vars

\* two objects, allocations may throw std::bad_alloc; the run stops at undefined behaviour
Throw ==
    \/ Construct(Inst, MaxCapTwo, FALSE)
    \/ Mutate(Inst, MaxCapTwo, FALSE)
    \/ Pairwise(FALSE)

Overrun == \E x \in Inst : OutOfBounds(x)

NextOOM == ~oob /\ (Next \/ Throw \/ Overrun)

SpecOOM == Init /\ [][NextOOM]_vars

\* two objects built and changed one at a time, and compared; a comparison that
\* leaves the array of its right operand ends the run
Comparisons ==
    \E x \in Inst, y \in Inst :
       \/ Equal(x, y)
       \/ NotEqual(x, y)

NextCmp ==
    /\ ~oob
    /\ \/ Construct(Inst, MaxCapTwo, TRUE)
       \/ Destroy(Inst)
       \/ Mutate(Inst, MaxCapTwo, TRUE)
       \/ Comparisons

SpecCmp == Init /\ [][NextCmp]_vars

\* one object, larger arrays, every allocation succeeds
NextOne ==
    \/ Construct({"a"}, MaxCap, TRUE)
    \/ Destroy({"a"})
    \/ Mutate({"a"}, MaxCap, TRUE)
    \/ Query({"a"}, MaxCap)

SpecOne == Init /\ [][NextOne]_vars

\* one default-constructed object and nothing but PushBack
InitPush ==
    /\ live = [x \in Inst |-> x = "a"]
    /\ items_ = [x \in Inst |-> Null]
    /\ size_ = [x \in Inst |-> 0]
    /\ capacity_ = [x \in Inst |-> 0]
    /\ heap = [b \in BufId |-> [alloc |-> FALSE, slots |-> << >>]]
    /\ badDelete = FALSE
    /\ oob = FALSE
    /\ pushes = [x \in Inst |-> IF x = "a" THEN 0 ELSE NoChain]
    /\ last = Call("DefaultCtor", "a", 0, FALSE, TRUE)

NextPush == \E v \in Value : pushes["a"] < MaxPushes /\ PushBack("a", v, TRUE)

SpecPush == InitPush /\ [][NextPush]_vars

\* ======================= properties =======================

\* C1: with every allocation succeeding, every state reached from the constructors
\* by PushBack, PopBack, Insert, Erase, Clear, Resize, Reserve, swap and the two
\* assignments has 0 <= size_ <= capacity_.
SizeWithinCapacity == \A x \in Inst : 0 <= size_[x] /\ size_[x] <= capacity_[x]

SizeWithinCapacityWitness ==
    /\ last.op = "Resize" /\ last.realloc /\ last.ok
    /\ \E x \in Inst : live[x] /\ size_[x] > 0 /\ size_[x] = capacity_[x]

\* the sequence s with v placed before its element at offset i
InsertAt(s, i, v) == SubSeq(s, 1, i) \o <<v>> \o SubSeq(s, i + 1, Len(s))

\* C2: Insert(begin() + i, v) on a container holding s leaves s[0..i), v, s[i..n),
\* size n + 1, and returns the position at index i, with or without spare capacity.
InsertPlacesValue ==
    [][\A p \in 0..MaxCap, v \in Value :
          Insert("a", p, v, TRUE) =>
             /\ Elems("a")' = InsertAt(Elems("a"), p, v)
             /\ size_'["a"] = size_["a"] + 1
             /\ last'.ret = p]_vars

\* C3: Insert(begin() + i, v) followed by Erase(begin() + i) restores the sequence:
\* erasing offset i of the state Insert leaves gives back the elements before it.
InsertEraseInverse ==
    [][\A p \in 0..MaxCap, v \in Value :
          Insert("a", p, v, TRUE) =>
             SeqOf(EraseSlots(Array("a")', p, size_'["a"]), size_'["a"] - 1) = Elems("a")]_vars

\* C4: when the allocation throws in Reserve, in a growing Insert or PushBack, or in
\* the fallback path of copy assignment, items_, size_, capacity_ and every array
\* are as before the call.
FailedAllocationKeepsState ==
    [][(~last'.ok /\ last'.op \in {"Reserve", "Insert", "PushBack", "CopyAssign"})
          => UNCHANGED <<items_, size_, capacity_, heap>>]_vars

\* C5: every allocated array is released exactly once: delete[] never meets an
\* address that is not allocated, a live object's array is allocated, and every
\* allocated array is owned by a live object (so none is left once all are destroyed).
BuffersReleasedOnce ==
    /\ ~badDelete
    /\ \A x \in Inst : live[x] /\ items_[x] # Null => heap[items_[x]].alloc
    /\ \A b \in BufId : heap[b].alloc => \E x \in Inst : live[x] /\ items_[x] = b

BuffersReleasedOnceWitness ==
    /\ last.op = "CopyAssign" /\ last.realloc /\ last.ok
    /\ \A x \in Inst : live[x] /\ items_[x] # Null

\* what a client can observe of one object, and the array behind it
View(x) == <<live[x], items_[x], size_[x], capacity_[x], Array(x)>>

NoSharedBuffer ==
    \A x \in Inst, y \in Inst :
       x # y /\ live[x] /\ live[y] /\ items_[x] # Null => items_[x] # items_[y]

\* C6: no two live objects own the same array, and a call on one object (other
\* than swap, an assignment from it or a move from it) leaves every other
\* object's size, capacity and elements unchanged.
CopyIndependence ==
    /\ NoSharedBuffer
    /\ [][/\ NoSharedBuffer'
          /\ last'.op \notin {"swap", "MoveCtor", "MoveAssign"} =>
                \A y \in Inst \ {last'.x} : View(y)' = View(y)]_vars

CopyIndependenceWitness ==
    /\ last.op = "Insert" /\ last.ok
    /\ \E x \in Inst, y \in Inst :
          /\ x # y /\ live[x] /\ live[y]
          /\ items_[x] # Null /\ items_[y] # Null
          /\ capacity_[x] = capacity_[y] /\ size_[x] = size_[y] + 1

RECURSIVE PowerOfTwoAtLeast(_, _)
PowerOfTwoAtLeast(k, p) == IF p >= k THEN p ELSE PowerOfTwoAtLeast(k, p + p)

\* C8: after k >= 1 PushBack calls on a default-constructed container and nothing
\* else, size is k and capacity is the smallest power of two >= k.
PushChainCapacity ==
    \A x \in Inst :
       pushes[x] >= 1 =>
          size_[x] = pushes[x] /\ capacity_[x] = PowerOfTwoAtLeast(pushes[x], 1)

PushChainCapacityWitness == pushes["a"] = 5 /\ capacity_["a"] = 8

\* C9: move construction and move assignment between distinct objects give the
\* target the source's size, capacity and elements and leave the source with the
\* fields of a default-constructed object: no array, size 0, capacity 0.
MoveEmptiesSource ==
    [][\A x \in Inst, y \in Inst :
          (x # y /\ (MoveCtor(x, y) \/ MoveAssign(x, y))) =>
             /\ size_'[x] = size_[y]
             /\ capacity_'[x] = capacity_[y]
             /\ Elems(x)' = Elems(y)
             /\ items_'[y] = Null /\ size_'[y] = 0 /\ capacity_'[y] = 0
             /\ live'[y]]_vars

MoveEmptiesSourceWitness ==
    /\ last.op = "MoveAssign"
    /\ \E x \in Inst, y \in Inst :
          /\ x # y /\ live[x] /\ live[y]
          /\ size_[x] > 0
          /\ items_[y] = Null /\ size_[y] = 0 /\ capacity_[y] = 0

AtChecksSize ==
    [][\A index \in 0..MaxCap :
          At("a", index) =>
             /\ ~last'.ok <=> index >= size_["a"]
             /\ last'.ok => last'.ret = Elems("a")[index + 1]
             /\ ~last'.ok => last'.ret = NoRet
             /\ UNCHANGED <<live, items_, size_, capacity_, heap>>]_vars

AtChecksSizeWitness ==
    /\ last.op = "At" /\ ~last.ok
    /\ last.n >= size_["a"] /\ last.n < capacity_["a"]

\* C12: Reserve(n) never changes size_ or the elements [0, size_); with
\* n <= capacity_ nothing changes at all; with n > capacity_ the capacity
\* becomes exactly n.
ReservePreservesElements ==
    [][\A n \in 0..MaxCap :
          Reserve("a", n, TRUE) =>
             /\ size_' = size_
             /\ Elems("a")' = Elems("a")
             /\ n <= capacity_["a"] => UNCHANGED <<items_, size_, capacity_, heap>>
             /\ n > capacity_["a"] => capacity_'["a"] = n /\ Slots("a")' = n]_vars

ReservePreservesElementsWitness ==
    /\ last.op = "Reserve" /\ last.realloc
    /\ size_["a"] >= 2 /\ capacity_["a"] = last.n
    /\ Elems("a")[1] # Elems("a")[2]

RemoveAt(s, i) == SubSeq(s, 1, i) \o SubSeq(s, i + 2, Len(s))

\* C14: Erase(begin() + i) with 0 <= i < n on a container holding s leaves s
\* without its i-th element, size n - 1, the same capacity and the same buffer,
\* and returns the position at index i, which is end() when the last was erased.
EraseRemovesElement ==
    [][\A p \in 0..MaxCap :
          Erase("a", p) =>
             /\ Elems("a")' = RemoveAt(Elems("a"), p)
             /\ size_'["a"] = size_["a"] - 1
             /\ UNCHANGED <<items_, capacity_>>
             /\ Slots("a")' = Slots("a")
             /\ last'.ret = p
             /\ p + 1 = size_["a"] => last'.ret = size_'["a"]]_vars

EraseRemovesElementWitness ==
    /\ last.op = "Erase" /\ last.n = 0
    /\ size_["a"] = 2
    /\ Elems("a")[1] # Elems("a")[2]

\* C16: Resize(new_size) with new_size > capacity_ sets the capacity to
\* max(new_size, 2 * old size), keeps the old elements in order, sets the slots
\* [old size, new_size) to the default value and sets size_ to new_size.
ResizeGrows ==
    [][\A n \in 0..MaxCap :
          (Resize("a", n, TRUE) /\ n > capacity_["a"]) =>
             LET old == size_["a"]
                 cap == IF n >= 2 * old THEN n ELSE 2 * old
             IN /\ capacity_'["a"] = cap
                /\ Slots("a")' = cap
                /\ size_'["a"] = n
                /\ \A i \in 1..old : Elems("a")'[i] = Elems("a")[i]
                /\ \A i \in (old + 1)..n : Elems("a")'[i] = DefaultValue]_vars

ResizeGrowsWitness ==
    /\ last.op = "Resize" /\ last.realloc /\ last.n = 3
    /\ size_["a"] = 3 /\ capacity_["a"] = 4
    /\ Elems("a")[2] # DefaultValue /\ Elems("a")[3] = DefaultValue

\* C17: Resize(new_size) with new_size <= capacity_ changes only size_; the
\* capacity, the buffer and every slot are as before, so the slots
\* [old size, new_size) come into view with the values they already held.
ResizeWithinCapacity ==
    [][\A n \in 0..MaxCap :
          (Resize("a", n, TRUE) /\ n <= capacity_["a"]) =>
             /\ size_'["a"] = n
             /\ UNCHANGED <<items_, capacity_, heap>>
             /\ \A i \in size_["a"]..(n - 1) : Array("a")'[i] = Array("a")[i]]_vars

ResizeWithinCapacityWitness ==
    /\ last.op = "Resize" /\ ~last.realloc
    /\ last.n = size_["a"] /\ last.n = capacity_["a"] /\ last.n >= 2
    /\ \A i \in 1..last.n : Elems("a")[i] # DefaultValue

\* C18: when the allocation throws in Resize(new_size) with new_size > capacity_,
\* size_, capacity_, items_ and the elements are as before the call, and
\* capacity_ still equals the slot count of the owned array.
ResizeFailureKeepsState ==
    [][(last'.op = "Resize" /\ ~last'.ok) =>
          /\ UNCHANGED <<items_, size_, capacity_, heap>>
          /\ \A x \in Inst : last'.x = x => capacity_'[x] = Slots(x)']_vars

\* C15: after a = b with a and b distinct, a's size and elements equal b's and b
\* is unchanged; a's capacity and buffer are unchanged when b's size fits a's
\* prior capacity, otherwise a's capacity equals b's; a = a leaves a unchanged.
CopyAssignCopies ==
    [][\A x \in Inst, y \in Inst :
          CopyAssign(x, y, TRUE) =>
             IF x = y
             THEN View(x)' = View(x)
             ELSE /\ size_'[x] = size_[y]
                  /\ Elems(x)' = Elems(y)
                  /\ View(y)' = View(y)
                  /\ size_[y] <= capacity_[x] =>
                        capacity_'[x] = capacity_[x] /\ items_'[x] = items_[x]
                  /\ size_[y] > capacity_[x] =>
                        capacity_'[x] = capacity_[y] /\ Slots(x)' = capacity_[y]]_vars

CopyAssignCopiesWitness ==
    /\ last.op = "CopyAssign" /\ last.realloc /\ last.x = "a"
    /\ size_["a"] = 1 /\ capacity_["a"] = 2 /\ capacity_["b"] = 2
    /\ Elems("a") = Elems("b") /\ Elems("a")[1] # DefaultValue
    /\ items_["a"] # items_["b"]

\* C19: the capacity of an object never decreases under PushBack, PopBack,
\* Insert, Erase, Clear, Resize, Reserve or a copy assignment into it, whether
\* or not the allocation succeeds; a step that lowers the capacity of an object
\* that stays alive is a swap, a move construction from it or a move assignment.
CapacityNeverDecreases ==
    [][/\ last'.op \in {"PushBack", "PopBack", "Insert", "Erase", "Clear",
                        "Resize", "Reserve", "CopyAssign"}
             => \A x \in Inst : capacity_'[x] >= capacity_[x]
       /\ \A x \in Inst :
             (live[x] /\ live'[x] /\ capacity_'[x] < capacity_[x])
                => last'.op \in {"swap", "MoveCtor", "MoveAssign"}]_vars

CapacityNeverDecreasesWitness ==
    /\ last.op = "Clear" /\ last.x = "a"
    /\ size_["a"] = 0 /\ capacity_["a"] >= 2
    /\ live["b"] /\ capacity_["b"] = 0

\* C13: for any two containers, a == b is true exactly when they have the same
\* size and the same elements below it, whatever their capacities and the stale
\* values above their sizes; a != b is its negation.
EqualityIsElementwise ==
    [][\A x \in Inst, y \in Inst :
          /\ Equal(x, y) => last'.ret = Bit(Elems(x) = Elems(y))
          /\ NotEqual(x, y) => last'.ret = Bit(Elems(x) # Elems(y))]_vars

\* C20: a == b reads no slot of b at an index >= b's size (so none outside b's
\* array), also when a is longer than b.
EqualityReadsWithinSize ==
    [][\A x \in Inst, y \in Inst : Equal(x, y) => last'.n <= size_[y]]_vars

====
